---- MODULE Spec2Model ----
(***************************************************************************)
(* Model of talk-to-my-data-agent: the Streamlit session registries of     *)
(* "Connect & Explore.py", the Data Dictionary page, and the pydantic      *)
(* schema objects of utils/schema.py.                                      *)
(*                                                                         *)
(* Spec        the session state machine (one page run per step)           *)
(* SchemaSpec  the schema constructors, applied to bounded inputs          *)
(* ReflectionSpec  one analysis request run through the reflection loop    *)
(***************************************************************************)
EXTENDS Integers, Sequences, FiniteSets, TLC

VARIABLES
    session_state,  \* st.session_state: the session registries
    uploader,       \* files held by the st.file_uploader widget of the current key
    rendered,       \* what the last run of a page put on the screen
    loads,          \* number of process_data_and_update_state calls since the last clear
    last_load,      \* history: the latest load, its source and what the collaborators did
    call,           \* the last schema constructor call and its outcome
    engine          \* the reflection loop of the analysis request in progress

vars == <<session_state, uploader, rendered, loads, last_load, call, engine>>

(***************************************************************************)
(* Bounds of the model.                                                    *)
(***************************************************************************)
MaxLoads == 2        \* loads between two clears
MaxClears == 1       \* clicks on the clear button
MaxChat == 1         \* chat turns between two clears
MaxSelect == 2       \* entries selected in a catalog or table multiselect
MaxUploads == 1      \* files held by the uploader at once
MaxList == 2         \* entries of a list given to a schema constructor
MaxAttempts == 3     \* largest attempt bound N of an analysis request

(***************************************************************************)
(* Sequence helpers.                                                       *)
(***************************************************************************)
Range(s) == {s[i] : i \in DOMAIN s}

\* [x.name for x in s]
SeqNames(s) == [i \in DOMAIN s |-> s[i].name]

RECURSIVE PickIndices(_, _, _)
\* the elements of s whose index is in keep, in order, from index i on
PickIndices(s, keep, i) ==
    IF i > Len(s) THEN <<>>
    ELSE (IF i \in keep THEN <<s[i]>> ELSE <<>>) \o PickIndices(s, keep, i + 1)

RECURSIVE FilterOut(_, _)
\* [x for x in s if x.name not in names]
FilterOut(s, names) ==
    IF s = <<>> THEN <<>>
    ELSE (IF Head(s).name \in names THEN <<>> ELSE <<Head(s)>>)
         \o FilterOut(Tail(s), names)

\* F applied to the value of v, v evaluated once
Bind(v, F(_)) == CHOOSE r \in {F(x) : x \in {v}} : TRUE

\* sequences over S of length lo..hi
SeqsOf(S, lo, hi) == UNION {[1..n -> S] : n \in lo..hi}

\* sequences of distinct elements of S, of length lo..hi
DistinctSeqsOf(S, lo, hi) ==
    {s \in SeqsOf(S, lo, hi) : \A i, j \in DOMAIN s : i # j => s[i] # s[j]}

(***************************************************************************)
(* The session.  DataSource is the enum of app_settings; None is the       *)
(* value data_source has before any load.                                  *)
(***************************************************************************)
None == "None"
FILE == "FILE"
CATALOG == "CATALOG"
DATABASE == "DATABASE"

\* helpers.state_init: the registries of a fresh session
state_init ==
    [datasets |-> <<>>,
     cleansed_data |-> <<>>,
     data_dictionaries |-> <<>>,
     chat_messages |-> <<>>,
     data_source |-> None,
     processed_file_ids |-> <<>>,
     file_uploader_key |-> 0]

\* helpers.state_empty: every registry back to its initial value; the
\* uploader key is left to the caller
state_empty(ss) ==
    [state_init EXCEPT !.file_uploader_key = ss.file_uploader_key]

(***************************************************************************)
(* What the user can load.                                                 *)
(***************************************************************************)
\* f"{base_name}_{sheet_name}"
SheetDatasetName(base, sheet) ==
    CASE base = "a" /\ sheet = "s" -> "a_s"
      [] base = "a" /\ sheet = "t" -> "a_t"
      [] base = "b" /\ sheet = "s" -> "b_s"
      [] base = "b" /\ sheet = "t" -> "b_t"

\* files a user may drop on the uploader: os.path.splitext(file.name) is
\* (base, ext); readable says whether pandas can parse the content
UploadableFiles ==
    {[file_id |-> 1, base |-> "a", ext |-> ".csv", sheets |-> <<>>, readable |-> TRUE],
     [file_id |-> 2, base |-> "b", ext |-> ".xlsx", sheets |-> <<"s", "t">>, readable |-> FALSE]}

\* list_catalog_datasets(): the entries of the AI catalog (AiCatalogDataset: id
\* and name; two entries may share a name)
CatalogEntries ==
    <<[id |-> "c1", name |-> "a"], [id |-> "c2", name |-> "a"], [id |-> "c3", name |-> "b"]>>

\* Database.get_tables(): the tables of the database
SchemaTables == <<"a", "b">>

\* what a multiselect over options can hold: at most MaxSelect of them, taken
\* here in the order of the options
Selections(options) ==
    {PickIndices(options, K, 1) :
        K \in {K \in SUBSET DOMAIN options : Cardinality(K) <= MaxSelect}}

\* an AnalystDataset as the session sees it: its name, the load that made it,
\* and whether it is the loaded object (raw) or the cleansing stage's copy of it
Dataset(name, load, raw) == [name |-> name, load |-> load, raw |-> raw]

\* process_uploaded_file: the datasets parsed from one file, [] on any error
process_uploaded_file(file, load) ==
    IF ~file.readable THEN <<>>
    ELSE IF file.ext = ".csv" THEN <<Dataset(file.base, load, TRUE)>>
    ELSE IF file.ext \in {".xlsx", ".xls"} THEN
        [i \in DOMAIN file.sheets |->
            Dataset(IF Len(file.sheets) > 1
                    THEN SheetDatasetName(file.base, file.sheets[i])
                    ELSE file.base, load, TRUE)]
    ELSE <<>>

\* the most datasets process_uploaded_file returns for an uploadable file
MaxSheets ==
    CHOOSE n \in {Len(process_uploaded_file(f, 0)) : f \in UploadableFiles} :
        \A f \in UploadableFiles : Len(process_uploaded_file(f, 0)) <= n

\* download_catalog_datasets(*ids): one dataset per selected entry, under its name
download_catalog_datasets(selected, load) ==
    [i \in DOMAIN selected |-> Dataset(selected[i].name, load, TRUE)]

\* Database.get_data(*tables): one dataset per table, or nothing when the fetch fails
get_data(tables, fetched, load) ==
    IF fetched THEN [i \in DOMAIN tables |-> Dataset(tables[i], load, TRUE)] ELSE <<>>

(***************************************************************************)
(* The collaborators' answers to one load: cleanse_dataframes raises or    *)
(* returns the cleansed datasets of the indices in keep; get_dictionaries  *)
(* raises or returns one dictionary per dataset it was given.              *)
(***************************************************************************)
\* the answers to a load of at most width datasets; cleanses says whether the
\* load calls cleanse_dataframes at all
Outcomes(width, cleanses) ==
    {[cleanse_raises |-> FALSE, keep |-> K, dictionaries_raise |-> d] :
        K \in (IF cleanses THEN SUBSET (1..width) ELSE {{}}), d \in BOOLEAN}
    \cup {[cleanse_raises |-> TRUE, keep |-> {}, dictionaries_raise |-> d] :
            d \in (IF cleanses THEN BOOLEAN ELSE {})}

\* a CleansedDataset whose name is not its dataset's but the default of AnalystDataset
Cleansed_default_name(ds) ==
    [dataset |-> Dataset(ds.name, ds.load, FALSE), name |-> "analyst_dataset"]

\* a CleansedDataset: the cleansed copy and its report; name is dataset.name
Cleansed(ds) ==
    [dataset |-> Dataset(ds.name, ds.load, FALSE), name |-> ds.name]

\* a DataDictionary generated for dataset ds
Dictionary(ds) == [name |-> ds.name, load |-> ds.load]

\* the running context of a page run: the session, the load counter, the
\* latest load and the messages shown
Ctx(ss, n, last, msgs) == [ss |-> ss, loads |-> n, last |-> last, msgs |-> msgs]

\* the steps of process_data_and_update_state, in the order of the code:
\* the cleansing stage's answer (lines 141-148)
cleanse_dataframes(ss, datasets, oc) ==
    IF ss.data_source # DATABASE /\ ~oc.cleanse_raises
    THEN Bind(PickIndices(datasets, oc.keep, 1),
              LAMBDA kept : [i \in DOMAIN kept |-> Cleansed(kept[i])])
    ELSE <<>>

\* the dictionary stage's answer (line 157)
get_dictionaries(analysis_datasets, oc) ==
    IF oc.dictionaries_raise THEN <<>>
    ELSE [i \in DOMAIN analysis_datasets |-> Dictionary(analysis_datasets[i])]

\* the messages the load shows: st.error, st.warning, st.toast
LoadMessages(ss, oc, new_dictionaries) ==
    (IF ss.data_source # DATABASE /\ oc.cleanse_raises
     THEN {"error_processing_data"} ELSE {})
    \cup (IF oc.dictionaries_raise THEN {"warning_dictionaries"} ELSE {})
    \cup (IF Len(new_dictionaries) > 0 THEN {"toast_processed"} ELSE {})

\* what the history keeps of the load
LoadEntry(X, oc) ==
    [load |-> X.loads + 1,
     source |-> X.ss.data_source,
     cleanse |-> IF X.ss.data_source = DATABASE THEN "skipped"
                 ELSE IF oc.cleanse_raises THEN "raised" ELSE "returned",
     dictionaries |-> IF oc.dictionaries_raise THEN "raised" ELSE "returned"]

\* process_data_and_update_state(datasets) with the collaborators answering oc
process_data_and_update_state(X, datasets, oc) ==
    Bind(Range(SeqNames(datasets)), LAMBDA new_dataset_names :
    Bind(cleanse_dataframes(X.ss, datasets, oc), LAMBDA cleansed_datasets :
    Bind(IF X.ss.data_source # DATABASE /\ ~oc.cleanse_raises
         THEN [i \in DOMAIN cleansed_datasets |-> cleansed_datasets[i].dataset]
         ELSE datasets, LAMBDA analysis_datasets :
    Bind(get_dictionaries(analysis_datasets, oc), LAMBDA new_dictionaries :
        Ctx([X.ss EXCEPT
                !.datasets = FilterOut(@, new_dataset_names) \o analysis_datasets,
                !.cleansed_data = FilterOut(@, new_dataset_names) \o cleansed_datasets,
                !.data_dictionaries =
                    @ \o FilterOut(new_dictionaries, Range(SeqNames(@)))],
            X.loads + 1,
            LoadEntry(X, oc),
            X.msgs \cup LoadMessages(X.ss, oc, new_dictionaries))))))

(***************************************************************************)
(* The callbacks of the Connect & Explore page.  oracle[k] is what the     *)
(* collaborators answer to load number k of the session.                   *)
(***************************************************************************)
\* clear_data_callback without its call of state_empty
clear_data_callback_keeps_state(ss) ==
    [ss EXCEPT !.file_uploader_key = ss.file_uploader_key + 1]

\* clear_data_callback
clear_data_callback(ss) ==
    [state_empty(ss) EXCEPT !.file_uploader_key = ss.file_uploader_key + 1]

\* uploaded_files_loop recording a file only when parsing it gave datasets
RECURSIVE uploaded_files_loop_records_parsed_only(_, _, _)
uploaded_files_loop_records_parsed_only(X, files, oracle) ==
    IF files = <<>> THEN X
    ELSE IF Head(files).file_id \in Range(X.ss.processed_file_ids)
    THEN uploaded_files_loop_records_parsed_only(X, Tail(files), oracle)
    ELSE Bind(process_uploaded_file(Head(files), X.loads + 1), LAMBDA dataset_results :
         Bind(process_data_and_update_state(X, dataset_results, oracle[X.loads + 1]),
              LAMBDA Y :
         Bind(IF dataset_results = <<>> THEN Y
              ELSE [Y EXCEPT !.ss.processed_file_ids = Append(@, Head(files).file_id)],
              LAMBDA Z : uploaded_files_loop_records_parsed_only(Z, Tail(files), oracle))))

RECURSIVE uploaded_files_loop(_, _, _)
\* the loop of uploaded_file_callback over the files
uploaded_files_loop(X, files, oracle) ==
    IF files = <<>> THEN X
    ELSE IF Head(files).file_id \in Range(X.ss.processed_file_ids)
    THEN uploaded_files_loop(X, Tail(files), oracle)
    ELSE Bind(process_uploaded_file(Head(files), X.loads + 1), LAMBDA dataset_results :
         Bind(process_data_and_update_state(X, dataset_results, oracle[X.loads + 1]),
              LAMBDA Y :
         Bind([Y EXCEPT !.ss.processed_file_ids = Append(@, Head(files).file_id)],
              LAMBDA Z : uploaded_files_loop(Z, Tail(files), oracle))))

\* uploaded_file_callback(uploaded_files)
uploaded_file_callback(X, uploaded_files, oracle) ==
    Bind([X EXCEPT !.ss.data_source = FILE],
         LAMBDA Y : uploaded_files_loop(Y, uploaded_files, oracle))

\* catalog_download_callback, with selected_catalog_datasets = selected
catalog_download_callback(X, selected, oracle) ==
    IF selected # <<>>
    THEN Bind([X EXCEPT !.ss.data_source = CATALOG], LAMBDA Y :
         Bind(download_catalog_datasets(selected, Y.loads + 1), LAMBDA dataframes :
              process_data_and_update_state(Y, dataframes, oracle[Y.loads + 1])))
    ELSE X

\* load_from_database_callback, with selected_schema_tables = selected
load_from_database_callback(X, selected, fetched, oracle) ==
    Bind([X EXCEPT !.ss.data_source = DATABASE], LAMBDA Y :
        IF selected # <<>>
        THEN Bind(get_data(selected, fetched, Y.loads + 1), LAMBDA dataframes :
                 IF dataframes = <<>>
                 THEN [Y EXCEPT !.msgs = @ \cup {"error_failed_to_load"}]
                 ELSE process_data_and_update_state(Y, dataframes, oracle[Y.loads + 1]))
        ELSE Y)

(***************************************************************************)
(* One run of main(): the sidebar top to bottom, then the page body.  ev   *)
(* is what the user did to cause the run.                                  *)
(***************************************************************************)
NoEvent == [kind |-> "none"]
CatalogSubmit(sel) == [kind |-> "catalog", selected |-> sel]
TablesSubmit(sel, fetched) == [kind |-> "tables", selected |-> sel, fetched |-> fetched]

\* the body of the Explore page: per dataset, its cleaning report or the warning
ExploreBody(ss) ==
    IF ss.datasets = <<>> THEN <<[block |-> "info_upload_to_start"]>>
    ELSE [i \in DOMAIN ss.datasets |->
            [block |-> "dataset",
             name |-> ss.datasets[i].name,
             report |-> IF \E j \in DOMAIN ss.cleansed_data :
                               ss.cleansed_data[j].name = ss.datasets[i].name
                        THEN "cleaning_report" ELSE "warning_no_cleaning_report"]]

\* the file upload section (lines 238-253)
UploadSection(X, files, oracle) ==
    IF files # <<>> THEN uploaded_file_callback(X, files, oracle) ELSE X

\* the catalog form (lines 263-283)
CatalogSection(X, ev, oracle) ==
    IF ev.kind = "catalog"
    THEN IF Len(ev.selected) > 0
         THEN catalog_download_callback(X, ev.selected, oracle)
         ELSE [X EXCEPT !.msgs = @ \cup {"warning_select_one"}]
    ELSE X

\* the table form (lines 292-314)
TablesSection(X, ev, oracle) ==
    IF ev.kind = "tables"
    THEN IF Len(ev.selected) = 0
         THEN [X EXCEPT !.msgs = @ \cup {"warning_select_one"}]
         ELSE load_from_database_callback(X, ev.selected, ev.fetched, oracle)
    ELSE X

main(X0, files, ev, oracle) ==
    Bind(UploadSection(X0, files, oracle), LAMBDA X1 :
    Bind(CatalogSection(X1, ev, oracle), LAMBDA X2 :
    Bind(TablesSection(X2, ev, oracle), LAMBDA X3 :
        [X |-> X3,
         screen |-> [page |-> "explore",
                     uploader_disabled |-> X0.ss.data_source = DATABASE,
                     catalog_disabled |-> X1.ss.data_source = DATABASE,
                     tables_disabled |-> X2.ss.data_source # None
                                         /\ X2.ss.data_source # DATABASE,
                     msgs |-> X3.msgs,
                     body |-> ExploreBody(X3.ss)]])))

(***************************************************************************)
(* The Data Dictionary page (pages/2_Data_Dictionary.py).                  *)
(***************************************************************************)
\* the methods class DataDictionary defines
DataDictionaryMethods == {"from_analyst_df", "from_application_df", "to_application_df"}

\* the try block of the page's loop: dictionary.to_df(), the editor, the download button
DictionaryBlock(dictionary) ==
    IF "to_df" \in DataDictionaryMethods
    THEN [block |-> "dictionary", name |-> dictionary.name,
          shown |-> {"data_editor", "download_data_dictionary"}]
    ELSE [block |-> "dictionary", name |-> dictionary.name,
          shown |-> {"error_displaying_dictionary"}]

DictionaryPage(ss) ==
    [page |-> "dictionary",
     body |-> IF Len(ss.data_dictionaries) = 0
              THEN <<[block |-> "info_upload_and_process"]>>
              ELSE [i \in DOMAIN ss.data_dictionaries |->
                        DictionaryBlock(ss.data_dictionaries[i])]]

(***************************************************************************)
(* The chat page appends the turn's messages to the chat history.          *)
(***************************************************************************)
ChatAppend(ss, question) ==
    [ss EXCEPT !.chat_messages =
        @ \o <<[role |-> "user", content |-> question],
               [role |-> "assistant", content |-> "answer"]>>]

(***************************************************************************)
(* The state machine: one step is one user event and the page run it       *)
(* causes.                                                                 *)
(***************************************************************************)
NoCall == [fn |-> "none"]

\* no analysis request is running
Idle == [state |-> "Idle"]

\* no load since the last clear
NoLoad == [load |-> 0]

Init ==
    /\ session_state = state_init
    /\ uploader = <<>>
    /\ rendered = main(Ctx(state_init, 0, NoLoad, {}), <<>>, NoEvent, <<>>).screen
    /\ loads = 0
    /\ last_load = NoLoad
    /\ call = NoCall
    /\ engine = Idle

\* the files of fs the loop of uploaded_file_callback will process
Unprocessed(ss, fs) == {i \in DOMAIN fs : fs[i].file_id \notin Range(ss.processed_file_ids)}

\* run main() with the collaborators answering by some oracle, and show the result
RunMain(ss, files, ev, k, answers) ==
    /\ loads + k <= MaxLoads
    /\ \E oracle \in [(loads + 1)..(loads + k) -> answers] :
         \E r \in {main(Ctx(ss, loads, last_load, {}), files, ev, oracle)} :
            /\ session_state' = r.X.ss
            /\ loads' = r.X.loads
            /\ last_load' = r.X.last
            /\ rendered' = r.screen
    /\ uploader' = files
    /\ UNCHANGED <<call, engine>>

OnExplore == rendered.page = "explore"

\* the user drops new files on the uploader
UploadFiles ==
    /\ OnExplore /\ ~rendered.uploader_disabled
    /\ \E added \in DistinctSeqsOf(UploadableFiles, 1, MaxUploads - Len(uploader)) :
         /\ \A i \in DOMAIN added :
               /\ added[i] \notin Range(uploader)
               /\ added[i].file_id \notin Range(session_state.processed_file_ids)
         /\ RunMain(session_state, uploader \o added, NoEvent,
                    Cardinality(Unprocessed(session_state, uploader \o added)),
                    Outcomes(MaxSheets, TRUE))

\* the user submits the catalog form
SubmitCatalog ==
    /\ OnExplore /\ ~rendered.catalog_disabled
    /\ \E sel \in Selections(CatalogEntries) :
         RunMain(session_state, uploader, CatalogSubmit(sel), IF sel = <<>> THEN 0 ELSE 1,
                 Outcomes(Len(sel), TRUE))

\* the user submits the table form
SubmitTables ==
    /\ OnExplore /\ ~rendered.tables_disabled
    /\ \E sel \in Selections(SchemaTables), fetched \in BOOLEAN :
         RunMain(session_state, uploader, TablesSubmit(sel, fetched),
                 IF sel = <<>> \/ ~fetched THEN 0 ELSE 1, Outcomes(Len(sel), FALSE))

\* the user clicks the clear button: the callback, then the run with a new uploader
ClearData ==
    /\ OnExplore
    /\ session_state.file_uploader_key < MaxClears
    /\ session_state' = clear_data_callback(session_state)
    /\ uploader' = <<>>
    /\ loads' = 0
    /\ last_load' = NoLoad
    /\ rendered' = main(Ctx(session_state', 0, NoLoad, {}), <<>>, NoEvent, <<>>).screen
    /\ UNCHANGED <<call, engine>>

\* the user opens (or interacts with) the Explore page: main() runs again
OpenExplore ==
    RunMain(session_state, uploader, NoEvent, 0, {})

\* the user opens the Data Dictionary page
OpenDataDictionary ==
    /\ rendered' = DictionaryPage(session_state)
    /\ UNCHANGED <<session_state, uploader, loads, last_load, call, engine>>

\* the user asks a question on the chat page
ChatTurn ==
    /\ Len(session_state.chat_messages) < 2 * MaxChat
    /\ session_state.datasets # <<>>
    /\ session_state' = ChatAppend(session_state, "question")
    /\ rendered' = [page |-> "chat", body |-> session_state'.chat_messages]
    /\ UNCHANGED <<uploader, loads, last_load, call, engine>>

Next ==
    \/ UploadFiles
    \/ SubmitCatalog
    \/ SubmitTables
    \/ ClearData
    \/ OpenExplore
    \/ OpenDataDictionary
    \/ ChatTurn

Spec == Init /\ [][Next]_vars

(***************************************************************************)
(* Properties of the session (checked under Spec).                         *)
(***************************************************************************)
Names(s) == Range(SeqNames(s))

DictionaryNotice == <<[block |-> "info_upload_and_process"]>>

\* C1: a step that runs clear_data_callback (the only step that changes the
\* uploader key) ends in a state whose datasets, cleansed data, dictionaries
\* and chat history are all empty, so that no dictionary names a removed
\* dataset, and in which the Data Dictionary page shows the upload-and-process
\* notice and no dictionary.
C1_ClearEmptiesSession ==
    [][session_state'.file_uploader_key # session_state.file_uploader_key =>
          /\ session_state'.datasets = <<>>
          /\ session_state'.cleansed_data = <<>>
          /\ session_state'.data_dictionaries = <<>>
          /\ session_state'.chat_messages = <<>>
          /\ Names(session_state'.data_dictionaries) \subseteq Names(session_state'.datasets)
          /\ DictionaryPage(session_state').body = DictionaryNotice]_vars

\* a session was cleared and the Data Dictionary page, opened afterwards,
\* shows the notice
C1_Witness ==
    /\ session_state.file_uploader_key > 0
    /\ loads = 0
    /\ rendered.page = "dictionary"
    /\ rendered.body = DictionaryNotice

\* C2: the names of the session's datasets are pairwise distinct.
C2_DatasetNamesDistinct ==
    \A i, j \in DOMAIN session_state.datasets :
        i # j => session_state.datasets[i].name # session_state.datasets[j].name

\* C3: after a load whose dictionary generation succeeded, every dictionary
\* registered under the name of a dataset of that load is the one generated
\* for that dataset.
C3_DictionaryReplacedByName ==
    (last_load.load > 0 /\ last_load.dictionaries = "returned") =>
        \A i \in DOMAIN session_state.datasets :
            session_state.datasets[i].load = last_load.load =>
                \A j \in DOMAIN session_state.data_dictionaries :
                    session_state.data_dictionaries[j].name = session_state.datasets[i].name
                        => session_state.data_dictionaries[j].load = last_load.load

\* C4: after a load whose cleansing failed, none of its datasets is in the
\* session's dataset list.
C4_FailedCleansingOmitted ==
    (last_load.load > 0 /\ last_load.cleanse = "raised") =>
        \A i \in DOMAIN session_state.datasets :
            session_state.datasets[i].load # last_load.load

(***************************************************************************)
(* utils/schema.py.  Python values are tagged: a str holds its characters. *)
(***************************************************************************)
PyStr(chars) == [t |-> "str", s |-> chars]
PyInt(n) == [t |-> "int", n |-> n]
PyFloat(n) == [t |-> "float", n |-> n]
PyNaN == [t |-> "nan"]
PyNone == [t |-> "none"]
PyList(items) == [t |-> "list", items |-> items]

IsStr(v) == v.t = "str"

\* pydantic's check of a field annotated list[str]
IsListOfStr(v) == \A i \in DOMAIN v : IsStr(v[i])

Whitespace == {" ", "\t", "\n"}

RECURSIVE lstrip(_)
lstrip(chars) ==
    IF chars # <<>> /\ Head(chars) \in Whitespace THEN lstrip(Tail(chars)) ELSE chars

RECURSIVE rstrip(_)
rstrip(chars) ==
    IF chars # <<>> /\ chars[Len(chars)] \in Whitespace
    THEN rstrip(SubSeq(chars, 1, Len(chars) - 1)) ELSE chars

\* str.strip()
strip(chars) == rstrip(lstrip(chars))

\* the constructor's outcomes: the object, or what was raised
Ok(obj) == [raised |-> "none", obj |-> obj]
Raised(kind) == [raised |-> kind]

(***************************************************************************)
(* DictionaryGeneration                                                    *)
(***************************************************************************)
\* the 10 of validate_descriptions
MinDescriptionLength == 10

\* validate_columns without the duplicate check
validate_columns_no_duplicate_check(v) ==
    IF v = <<>> THEN "ValueError"
    ELSE IF \E i \in DOMAIN v : ~IsStr(v[i]) \/ v[i].s = <<>> THEN "ValueError"
    ELSE "ok"

\* validate_columns: what the validator raises, or ok
validate_columns(v) ==
    IF v = <<>> THEN "ValueError"
    ELSE IF Len(v) # Cardinality(Range(v)) THEN "ValueError"
    ELSE IF \E i \in DOMAIN v : ~IsStr(v[i]) \/ v[i].s = <<>> THEN "ValueError"
    ELSE "ok"

\* validate_descriptions: data is info.data, the fields validated so far.  The
\* message of the length error subscripts the ValidationInfo (values['columns']),
\* which raises TypeError before the ValueError is built.
validate_descriptions(v, data) ==
    IF "columns" \notin DOMAIN data THEN "ValueError"
    ELSE IF Len(v) # Len(data.columns) THEN "TypeError"
    ELSE IF \E i \in DOMAIN v :
              \/ ~IsStr(v[i]) \/ v[i].s = <<>>
              \/ Len(strip(v[i].s)) < MinDescriptionLength
         THEN "ValueError"
    ELSE "ok"

\* one field of a pydantic model: the annotation's check, then the field validator
ValidateField(v, TypeOk(_), Validator(_)) ==
    IF ~TypeOk(v) THEN "ValueError" ELSE Validator(v)

\* DictionaryGeneration(columns=..., descriptions=...): fields in declaration
\* order; ValueErrors are collected into one ValidationError, any other
\* exception leaves the constructor as it is
DictionaryGeneration(columns, descriptions) ==
    Bind(ValidateField(columns, IsListOfStr, validate_columns), LAMBDA c :
    Bind(IF c = "ok" THEN [columns |-> columns] ELSE <<>>, LAMBDA data :
    Bind(ValidateField(descriptions, IsListOfStr,
                       LAMBDA v : validate_descriptions(v, data)), LAMBDA d :
        IF d = "TypeError" THEN Raised("TypeError")
        ELSE IF c # "ok" \/ d # "ok" THEN Raised("ValidationError")
        ELSE Ok([columns |-> columns, descriptions |-> descriptions]))))

\* inputs: column names and descriptions an LLM response may hold
Chars(n, c) == [i \in 1..n |-> c]

ColumnInputs == {PyStr(<<>>), PyStr(<<"x">>), PyStr(<<"y">>), PyInt(1)}

DescriptionInputs ==
    {PyStr(<<>>),
     PyStr(<<" ">>),
     PyStr(Chars(MinDescriptionLength - 1, "d")),
     PyStr(<<" ">> \o Chars(MinDescriptionLength - 1, "d") \o <<"\n">>),
     PyStr(Chars(MinDescriptionLength, "d")),
     PyStr(<<"\t">> \o Chars(MinDescriptionLength, "d") \o <<" ">>),
     PyInt(1)}

NewDictionaryGeneration ==
    /\ call = NoCall
    /\ \E columns \in SeqsOf(ColumnInputs, 0, MaxList),
          descriptions \in SeqsOf(DescriptionInputs, 0, MaxList) :
         call' = [fn |-> "DictionaryGeneration",
                  columns |-> columns,
                  descriptions |-> descriptions,
                  out |-> DictionaryGeneration(columns, descriptions)]
    /\ UNCHANGED <<session_state, uploader, rendered, loads, last_load, engine>>

(***************************************************************************)
(* The results: RunAnalysisResult, RunDatabaseAnalysisResult,              *)
(* RunChartsResult.  status is a field of its own, typed                   *)
(* Literal["success", "error"]; metadata is a model holding exception.     *)
(***************************************************************************)
StatusLiteral == {"success", "error"}

\* AnalysisError(exception_history=...): None, or a list of CodeExecutionError
AnalysisError(exception_history) ==
    [cls |-> "AnalysisError", exception_history |-> exception_history]

\* RunAnalysisResultMetadata counting the attempts from zero
RunAnalysisResultMetadata_attempts_from_zero(attempts, exception) ==
    [cls |-> "RunAnalysisResultMetadata", attempts |-> attempts - 1, exception |-> exception]

\* RunAnalysisResultMetadata(duration=..., attempts=..., exception=...)
RunAnalysisResultMetadata(attempts, exception) ==
    [cls |-> "RunAnalysisResultMetadata", attempts |-> attempts, exception |-> exception]

\* RunDatabaseAnalysisResultMetadata(duration=..., attempts=..., exception=...)
RunDatabaseAnalysisResultMetadata(attempts, exception) ==
    [cls |-> "RunDatabaseAnalysisResultMetadata", attempts |-> attempts, exception |-> exception]

\* a result model: status against its Literal, metadata against its class;
\* nothing relates the two fields
ResultModel(status, metadata, metadata_cls) ==
    IF status \notin StatusLiteral \/ metadata.cls # metadata_cls
    THEN Raised("ValidationError")
    ELSE Ok([status |-> status, metadata |-> metadata])

RunAnalysisResult(status, metadata) ==
    ResultModel(status, metadata, "RunAnalysisResultMetadata")

RunDatabaseAnalysisResult(status, metadata) ==
    ResultModel(status, metadata, "RunDatabaseAnalysisResultMetadata")

RunChartsResult(status, metadata) ==
    ResultModel(status, metadata, "RunAnalysisResultMetadata")

ResultTypes == {"RunAnalysisResult", "RunDatabaseAnalysisResult", "RunChartsResult"}

StatusInputs == StatusLiteral \cup {"pending"}

MetadataInputs ==
    {RunAnalysisResultMetadata(1, e) : e \in {PyNone, AnalysisError(PyNone)}}
    \cup {RunDatabaseAnalysisResultMetadata(1, e) : e \in {PyNone, AnalysisError(PyNone)}}

NewResult ==
    /\ call = NoCall
    /\ \E fn \in ResultTypes, status \in StatusInputs, metadata \in MetadataInputs :
         call' = [fn |-> fn, status |-> status, metadata |-> metadata,
                  out |-> CASE fn = "RunAnalysisResult" -> RunAnalysisResult(status, metadata)
                            [] fn = "RunDatabaseAnalysisResult" ->
                                   RunDatabaseAnalysisResult(status, metadata)
                            [] fn = "RunChartsResult" -> RunChartsResult(status, metadata)]
    /\ UNCHANGED <<session_state, uploader, rendered, loads, last_load, engine>>

(***************************************************************************)
(* The requests.  question is annotated str in three of them and           *)
(* str = Field(min_length=1) in RunDatabaseAnalysisRequest.                *)
(***************************************************************************)
\* the min_length of RunDatabaseAnalysisRequest.question
QuestionMinLength == 1

\* question: str
RunAnalysisRequest(question) ==
    IF ~IsStr(question) THEN Raised("ValidationError") ELSE Ok([question |-> question])

\* question: str
RunChartsRequest(question) ==
    IF ~IsStr(question) THEN Raised("ValidationError") ELSE Ok([question |-> question])

\* question: str
GetBusinessAnalysisRequest(question) ==
    IF ~IsStr(question) THEN Raised("ValidationError") ELSE Ok([question |-> question])

\* question: str = Field(min_length=1)
RunDatabaseAnalysisRequest(question) ==
    IF ~IsStr(question) \/ Len(question.s) < QuestionMinLength
    THEN Raised("ValidationError")
    ELSE Ok([question |-> question])

RequestTypes ==
    {"RunAnalysisRequest", "RunChartsRequest", "GetBusinessAnalysisRequest",
     "RunDatabaseAnalysisRequest"}

QuestionInputs == {PyStr(<<>>), PyStr(<<" ">>), PyStr(<<"q">>), PyStr(<<"q", "?">>), PyNone}

\* a request built with valid datasets and dictionaries and some question
NewRequest ==
    /\ call = NoCall
    /\ \E fn \in RequestTypes, question \in QuestionInputs :
         call' = [fn |-> fn, question |-> question,
                  out |-> CASE fn = "RunAnalysisRequest" -> RunAnalysisRequest(question)
                            [] fn = "RunChartsRequest" -> RunChartsRequest(question)
                            [] fn = "GetBusinessAnalysisRequest" ->
                                   GetBusinessAnalysisRequest(question)
                            [] fn = "RunDatabaseAnalysisRequest" ->
                                   RunDatabaseAnalysisRequest(question)]
    /\ UNCHANGED <<session_state, uploader, rendered, loads, last_load, engine>>

(***************************************************************************)
(* DataDictionary and its three construction paths.                        *)
(***************************************************************************)
\* DataDictionaryColumn(data_type=..., column=..., description=...): three str fields
DataDictionaryColumn(column, description, data_type) ==
    IF IsStr(column) /\ IsStr(description) /\ IsStr(data_type)
    THEN Ok([column |-> column, description |-> description, data_type |-> data_type])
    ELSE Raised("ValidationError")

\* DataDictionary(name=..., column_descriptions=[...]): name a str, the list a
\* list of DataDictionaryColumn; the model has no validator
DataDictionary(name, column_descriptions) ==
    IF IsStr(name)
    THEN Ok([name |-> name, column_descriptions |-> column_descriptions])
    ELSE Raised("ValidationError")

\* the constructor calls of a list comprehension, in order: the list of the
\* objects, or the first exception
RECURSIVE Comprehension(_, _)
Comprehension(outs, i) ==
    IF i > Len(outs) THEN Ok(<<>>)
    ELSE IF outs[i].raised # "none" THEN outs[i]
    ELSE Bind(Comprehension(outs, i + 1), LAMBDA rest :
            IF rest.raised # "none" THEN rest ELSE Ok(<<outs[i].obj>> \o rest.obj))

\* from_analyst_df iterating over df.columns[1:]
from_analyst_df_skips_first_column(df, name, column_descriptions) ==
    Bind([i \in 1..(Len(df.labels) - 1) |->
            IF \E j \in DOMAIN df.labels : j # i + 1 /\ df.labels[j] = df.labels[i + 1]
            THEN Raised("AttributeError")
            ELSE DataDictionaryColumn(df.labels[i + 1], column_descriptions, df.dtypes[i + 1])],
         LAMBDA outs :
    Bind(Comprehension(outs, 1), LAMBDA cols :
        IF cols.raised # "none" THEN cols ELSE DataDictionary(name, cols.obj)))

\* a pandas DataFrame seen through its column labels: df.columns is labels, and
\* df[col] is a Series when the label is unique and a DataFrame, which has no
\* dtype attribute, when it is not
from_analyst_df(df, name, column_descriptions) ==
    Bind([i \in DOMAIN df.labels |->
            IF \E j \in DOMAIN df.labels : j # i /\ df.labels[j] = df.labels[i]
            THEN Raised("AttributeError")
            ELSE DataDictionaryColumn(df.labels[i], column_descriptions, df.dtypes[i])],
         LAMBDA outs :
    Bind(Comprehension(outs, 1), LAMBDA cols :
        IF cols.raised # "none" THEN cols ELSE DataDictionary(name, cols.obj)))

\* from_application_df: df.columns is labels, df.iterrows() gives rows, each a
\* function of the labels
from_application_df(df, name) ==
    IF ~({"column", "description", "data_type"} \subseteq df.labels)
    THEN Raised("ValueError")
    ELSE Bind([i \in DOMAIN df.rows |->
                 DataDictionaryColumn(df.rows[i]["column"], df.rows[i]["description"],
                                      df.rows[i]["data_type"])],
              LAMBDA outs :
         Bind(Comprehension(outs, 1), LAMBDA cols :
             IF cols.raised # "none" THEN cols ELSE DataDictionary(name, cols.obj)))

DataDictionaryPaths == {"DataDictionary", "from_analyst_df", "from_application_df"}

ColumnLabelInputs == {PyStr(<<"x">>), PyStr(<<"y">>), PyInt(0)}

\* DataDictionaryColumn objects a caller may put in the list
DictionaryColumnInputs ==
    {DataDictionaryColumn(c, PyStr(<<"d">>), PyStr(<<"int64">>)).obj :
        c \in {PyStr(<<"x">>), PyStr(<<"y">>)}}

\* frames given to from_analyst_df: labels, with the dtype of each column
AnalystFrameInputs ==
    {[labels |-> l, dtypes |-> [i \in DOMAIN l |-> PyStr(<<"int64">>)]] :
        l \in SeqsOf(ColumnLabelInputs, 0, MaxList)}

\* frames given to from_application_df: with or without the data_type column
ApplicationRow(labels, column) ==
    [l \in labels |-> IF l = "column" THEN column ELSE PyStr(<<l>>)]

ApplicationFrameInputs ==
    UNION {{[labels |-> labels, rows |-> [i \in DOMAIN cs |-> ApplicationRow(labels, cs[i])]] :
                cs \in SeqsOf(ColumnLabelInputs, 0, MaxList)} :
            labels \in {{"column", "description", "data_type"}, {"column", "description"}}}

NameInputs == {PyStr(<<"analysis_result">>), PyNone}

NewDataDictionary ==
    /\ call = NoCall
    /\ \E name \in NameInputs :
         \/ \E cds \in SeqsOf(DictionaryColumnInputs, 0, MaxList) :
               call' = [fn |-> "DataDictionary", name |-> name, input |-> cds,
                        out |-> DataDictionary(name, cds)]
         \/ \E df \in AnalystFrameInputs :
               call' = [fn |-> "from_analyst_df", name |-> name, input |-> df,
                        out |-> from_analyst_df(df, name, PyStr(<<"d">>))]
         \/ \E df \in ApplicationFrameInputs :
               call' = [fn |-> "from_application_df", name |-> name, input |-> df,
                        out |-> from_application_df(df, name)]
    /\ UNCHANGED <<session_state, uploader, rendered, loads, last_load, engine>>

(***************************************************************************)
(* AnalystDataset and DataFrameWrapper.  A record is a dict, here the      *)
(* sequence of its (key, value) items in insertion order.  A DataFrame is  *)
(* its column labels and, per column, its dtype and values.                *)
(***************************************************************************)
RecordKeys(rec) == [i \in DOMAIN rec |-> rec[i][1]]

\* rec[key], or NaN where the record has no such key (pandas fills with nan)
RecordGet(rec, key) ==
    IF \E i \in DOMAIN rec : rec[i][1] = key
    THEN rec[CHOOSE i \in DOMAIN rec : rec[i][1] = key][2]
    ELSE PyNaN

\* the keys of the records in the order of their first appearance
RECURSIVE UnionOfKeys(_, _)
UnionOfKeys(keys, seen) ==
    IF keys = <<>> THEN <<>>
    ELSE IF Head(keys) \in seen THEN UnionOfKeys(Tail(keys), seen)
    ELSE <<Head(keys)>> \o UnionOfKeys(Tail(keys), seen \cup {Head(keys)})

RECURSIVE Flatten(_)
Flatten(ss) == IF ss = <<>> THEN <<>> ELSE Head(ss) \o Flatten(Tail(ss))

IsNumber(v) == v.t \in {"int", "float", "nan"}

\* the dtype pandas infers for a column of Python objects: int64 for ints,
\* float64 for numbers with a float, NaN or None among them, object otherwise
InferDtype(values) ==
    IF values = <<>> THEN "object"
    ELSE IF \A i \in DOMAIN values : values[i].t = "int" THEN "int64"
    ELSE IF /\ \A i \in DOMAIN values : IsNumber(values[i]) \/ values[i] = PyNone
            /\ \E i \in DOMAIN values : IsNumber(values[i])
         THEN "float64"
    ELSE "object"

\* a value stored under a dtype
Cast(v, dtype) ==
    IF dtype = "float64"
    THEN (IF v.t = "int" THEN PyFloat(v.n) ELSE IF v = PyNone THEN PyNaN ELSE v)
    ELSE v

\* pd.DataFrame.from_records(records) for a list of dicts
from_records(records) ==
    Bind(UnionOfKeys(Flatten([i \in DOMAIN records |-> RecordKeys(records[i])]), {}),
         LAMBDA columns :
    Bind([c \in DOMAIN columns |->
            [i \in DOMAIN records |-> RecordGet(records[i], columns[c])]], LAMBDA raw :
    Bind([c \in DOMAIN columns |-> InferDtype(raw[c])], LAMBDA dtypes :
        [columns |-> columns,
         dtypes |-> dtypes,
         rows |-> Len(records),
         values |-> [c \in DOMAIN columns |->
                       [i \in DOMAIN records |-> Cast(raw[c][i], dtypes[c])]]])))

\* DataFrameWrapper.to_dict: df.to_dict(orient="records") with the keys made str
to_dict(df) ==
    [i \in 1..df.rows |-> [c \in DOMAIN df.columns |-> <<df.columns[c], df.values[c][i]>>]]

\* a pandas DataFrame given as a Python value
PyFrame(df) == [t |-> "frame", df |-> df]

\* DataFrameWrapper.validate: a DataFrame is wrapped as it is, a list goes
\* through from_records, anything else is refused
validate(v) ==
    IF v.t = "frame" THEN Ok([df |-> v.df])
    ELSE IF v.t = "list" THEN Ok([df |-> from_records(v.items)])
    ELSE Raised("ValueError")

\* AnalystDataset(name=..., <field>=v) with field data or data_records:
\* reconstruct_data builds data from data_records when data is absent, and the
\* data field is validated by DataFrameWrapper.validate
AnalystDataset(name, field, v) ==
    IF field = "data_records"
    THEN (IF v.t = "list" THEN Ok([name |-> name, data |-> [df |-> from_records(v.items)]])
          ELSE Raised("ValidationError"))
    ELSE Bind(validate(v), LAMBDA d :
            IF d.raised # "none" THEN Raised("ValidationError")
            ELSE Ok([name |-> name, data |-> d.obj]))

\* AnalystDataset.data_records
data_records(dataset) == to_dict(dataset.data.df)

ValueInputs == {PyInt(1), PyInt(2), PyStr(<<"s">>), PyNone}

\* records over the keys x, or x and y
RecordInputs ==
    {<<<<"x", v>>>> : v \in ValueInputs}
    \cup {<<<<"x", v>>, <<"y", w>>>> : v \in ValueInputs, w \in ValueInputs}

NewAnalystDataset ==
    /\ call = NoCall
    /\ \E field \in {"data", "data_records"},
          v \in {PyList(r) : r \in SeqsOf(RecordInputs, 0, MaxList)} \cup {PyInt(1)} :
         \E out \in {AnalystDataset("analyst_dataset", field, v)} :
            call' = [fn |-> "AnalystDataset", field |-> field, input |-> v, out |-> out,
                     data_records |-> IF out.raised = "none" THEN data_records(out.obj)
                                      ELSE <<>>]
    /\ UNCHANGED <<session_state, uploader, rendered, loads, last_load, engine>>

(***************************************************************************)
(* AnalysisError.from_max_reflection_exception.  A MaxReflectionAttempts   *)
(* exception holds exception_history: None, or a list whose entries are    *)
(* None or hold exception, traceback_str, code, stdout and stderr.         *)
(***************************************************************************)
PyException(msg) == [t |-> "exception", msg |-> msg]

\* str(v) for an exception, None or a str
PyStrOf(v) ==
    CASE v.t = "exception" -> PyStr(v.msg)
      [] v.t = "none" -> PyStr(<<"N", "o", "n", "e">>)
      [] v.t = "str" -> v

IsOptionalStr(v) == v.t \in {"str", "none"}

\* CodeExecutionError(code=..., exception_str=..., stdout=..., stderr=...,
\* traceback_str=...): five fields typed str | None
CodeExecutionError(code, exception_str, stdout, stderr, traceback_str) ==
    IF /\ IsOptionalStr(code) /\ IsOptionalStr(exception_str) /\ IsOptionalStr(stdout)
       /\ IsOptionalStr(stderr) /\ IsOptionalStr(traceback_str)
    THEN Ok([code |-> code, exception_str |-> exception_str, stdout |-> stdout,
             stderr |-> stderr, traceback_str |-> traceback_str])
    ELSE Raised("ValidationError")

\* one failed execution as the exception records it
ExecutionFailure(exception, traceback_str, code, stdout, stderr) ==
    [exception |-> exception, traceback_str |-> traceback_str, code |-> code,
     stdout |-> stdout, stderr |-> stderr]

\* the exception raised when the attempts are used up
MaxReflectionAttempts(exception_history) == [exception_history |-> exception_history]

\* from_max_reflection_exception keeping only the latest failure
from_max_reflection_exception_latest_only(exception) ==
    IF exception.exception_history = PyNone THEN Ok(AnalysisError(PyNone))
    ELSE Bind(exception.exception_history.items, LAMBDA h :
         Bind(PickIndices(h, {i \in DOMAIN h : h[i] # PyNone /\ i = Len(h)}, 1), LAMBDA kept :
         Bind([i \in DOMAIN kept |->
                 CodeExecutionError(kept[i].code, PyStrOf(kept[i].exception), kept[i].stdout,
                                    kept[i].stderr, kept[i].traceback_str)], LAMBDA outs :
         Bind(Comprehension(outs, 1), LAMBDA errors :
             IF errors.raised # "none" THEN errors
             ELSE Ok(AnalysisError(PyList(errors.obj)))))))

\* from_max_reflection_exception with the entries in reverse
from_max_reflection_exception_newest_first(exception) ==
    IF exception.exception_history = PyNone THEN Ok(AnalysisError(PyNone))
    ELSE Bind(exception.exception_history.items, LAMBDA h :
         Bind(PickIndices(h, {i \in DOMAIN h : h[i] # PyNone}, 1), LAMBDA kept :
         Bind([i \in DOMAIN kept |->
                 CodeExecutionError(kept[Len(kept) + 1 - i].code,
                                    PyStrOf(kept[Len(kept) + 1 - i].exception),
                                    kept[Len(kept) + 1 - i].stdout,
                                    kept[Len(kept) + 1 - i].stderr,
                                    kept[Len(kept) + 1 - i].traceback_str)], LAMBDA outs :
         Bind(Comprehension(outs, 1), LAMBDA errors :
             IF errors.raised # "none" THEN errors
             ELSE Ok(AnalysisError(PyList(errors.obj)))))))

\* from_max_reflection_exception: the entries that are not None, in order, each
\* made a CodeExecutionError; None when the exception has no history
from_max_reflection_exception(exception) ==
    IF exception.exception_history = PyNone THEN Ok(AnalysisError(PyNone))
    ELSE Bind(exception.exception_history.items, LAMBDA h :
         Bind(PickIndices(h, {i \in DOMAIN h : h[i] # PyNone}, 1), LAMBDA kept :
         Bind([i \in DOMAIN kept |->
                 CodeExecutionError(kept[i].code, PyStrOf(kept[i].exception), kept[i].stdout,
                                    kept[i].stderr, kept[i].traceback_str)], LAMBDA outs :
         Bind(Comprehension(outs, 1), LAMBDA errors :
             IF errors.raised # "none" THEN errors
             ELSE Ok(AnalysisError(PyList(errors.obj)))))))

\* failures an exception may hold: a full one, one without output, one whose
\* exception is None
FailureInputs ==
    {ExecutionFailure(PyException(<<"e">>), PyStr(<<"t">>), PyStr(<<"c">>),
                      PyStr(<<"o">>), PyStr(<<"r">>)),
     ExecutionFailure(PyException(<<"f">>), PyNone, PyStr(<<"d">>), PyNone, PyNone),
     ExecutionFailure(PyNone, PyNone, PyNone, PyNone, PyNone)}

HistoryInputs ==
    {PyNone} \cup {PyList(h) : h \in SeqsOf(FailureInputs \cup {PyNone}, 0, MaxList)}

NewAnalysisError ==
    /\ call = NoCall
    /\ \E history \in HistoryInputs :
         call' = [fn |-> "from_max_reflection_exception", history |-> history,
                  out |-> from_max_reflection_exception(MaxReflectionAttempts(history))]
    /\ UNCHANGED <<session_state, uploader, rendered, loads, last_load, engine>>

(***************************************************************************)
(* AnalystChatMessage and its OpenAI form.  The three message params are   *)
(* TypedDicts: calling one gives the dict of its keyword arguments.        *)
(***************************************************************************)
UserRoleType == {"assistant", "user", "system"}

ChatCompletionUserMessageParam(role, content) == [role |-> role, content |-> content]

ChatCompletionAssistantMessageParam(role, content) == [role |-> role, content |-> content]

ChatCompletionSystemMessageParam(role, content) == [role |-> role, content |-> content]

\* AnalystChatMessage(role=..., content=..., components=[...])
AnalystChatMessage(role, content, components) ==
    IF role \in UserRoleType /\ IsStr(content)
    THEN Ok([role |-> role, content |-> content, components |-> components])
    ELSE Raised("ValidationError")

\* to_openai_message_param sending the components along
to_openai_message_param_with_components(self) ==
    [role |-> self.role, content |-> self.content, components |-> self.components]

\* to_openai_message_param: None when no branch is taken
to_openai_message_param(self) ==
    IF self.role = "user" THEN ChatCompletionUserMessageParam(self.role, self.content)
    ELSE IF self.role = "assistant"
    THEN ChatCompletionAssistantMessageParam(self.role, self.content)
    ELSE IF self.role = "system"
    THEN ChatCompletionSystemMessageParam(self.role, self.content)
    ELSE PyNone

\* the history as the transport gets it: one param per message, in order
marshal_history(messages) == [i \in DOMAIN messages |-> to_openai_message_param(messages[i])]

\* the arguments a message may be built from: any role, empty or plain
\* content, with or without a result attached
MessageInputs ==
    {[role |-> r, content |-> c, components |-> cs] :
        r \in UserRoleType \cup {"tool"},
        c \in {PyStr(<<>>), PyStr(<<"h", "i">>)},
        cs \in {<<>>, <<RunAnalysisResult("success", RunAnalysisResultMetadata(1, PyNone)).obj>>}}

NewChatHistory ==
    /\ call = NoCall
    /\ \E inputs \in SeqsOf(MessageInputs, 1, MaxList) :
         \E out \in {Comprehension([i \in DOMAIN inputs |->
                        AnalystChatMessage(inputs[i].role, inputs[i].content,
                                           inputs[i].components)], 1)} :
            call' = [fn |-> "to_openai_message_param", inputs |-> inputs, out |-> out,
                     params |-> IF out.raised = "none" THEN marshal_history(out.obj) ELSE <<>>]
    /\ UNCHANGED <<session_state, uploader, rendered, loads, last_load, engine>>

(***************************************************************************)
(* The serialized form of an AnalystDataset and its way back.              *)
(***************************************************************************)
\* model_dump(): data is declared exclude=True, data_records is a computed field
model_dump(dataset) == [name |-> dataset.name, data_records |-> data_records(dataset)]

\* AnalystDataset(**dump): the input has data_records and no data
model_validate(dump) == AnalystDataset(dump.name, "data_records", PyList(dump.data_records))

\* frames a dataset may be built from directly: a parsed file with rows, a
\* file with a header row only, and a column of Python objects
FrameInputs ==
    {[columns |-> <<"x", "y">>, dtypes |-> <<"int64", "object">>, rows |-> 1,
      values |-> <<<<PyInt(1)>>, <<PyStr(<<"s">>)>>>>],
     [columns |-> <<"x">>, dtypes |-> <<"object">>, rows |-> 0, values |-> <<<<>>>>],
     [columns |-> <<"x">>, dtypes |-> <<"object">>, rows |-> 2,
      values |-> <<<<PyInt(1), PyNone>>>>]}

NewDumpAndLoad ==
    /\ call = NoCall
    /\ \E name \in {"analyst_dataset", "sales"},
          v \in {PyList(r) : r \in SeqsOf(RecordInputs, 0, MaxList)}
                \cup {PyFrame(df) : df \in FrameInputs} :
         \E out \in {AnalystDataset(name, "data", v)} :
            \E dump \in {model_dump(out.obj)} :
               call' = [fn |-> "model_dump", input |-> v, out |-> out, dump |-> dump,
                        loaded |-> model_validate(dump)]
    /\ UNCHANGED <<session_state, uploader, rendered, loads, last_load, engine>>

SchemaNext ==
    \/ NewDictionaryGeneration
    \/ NewDumpAndLoad
    \/ NewChatHistory
    \/ NewAnalysisError
    \/ NewResult
    \/ NewRequest
    \/ NewDataDictionary
    \/ NewAnalystDataset

SchemaSpec == Init /\ [][SchemaNext]_vars

(***************************************************************************)
(* The reflection loop of one analysis request: states Generating,         *)
(* Executing, Reflecting, Success, Exhausted.  N is the attempt bound and   *)
(* sandbox[i] what attempt i meets: "ok", "raises" (the generated code     *)
(* fails in the sandbox) or "malformed" (the generation response has no    *)
(* code, which counts as a failed attempt).                                *)
(***************************************************************************)
AttemptOutcomes == {"ok", "raises", "malformed"}

\* the code generated at attempt i
CodeOf(i) == PyStr(Chars(i, "c"))

\* the failure recorded for attempt i
FailureOf(i, outcome) ==
    IF outcome = "malformed"
    THEN ExecutionFailure(PyException(Chars(i, "m")), PyNone, PyNone, PyNone, PyNone)
    ELSE ExecutionFailure(PyException(Chars(i, "e")), PyStr(<<"t">>), CodeOf(i),
                          PyStr(<<>>), PyStr(<<>>))

\* the success result of attempt k
SuccessResult(k) ==
    RunAnalysisResult("success", RunAnalysisResultMetadata(k, PyNone)).obj
    @@ [code |-> CodeOf(k)]

\* the error result once the attempts are used up
ExhaustedResult(attempts, history) ==
    RunAnalysisResult("error",
        RunAnalysisResultMetadata(attempts,
            from_max_reflection_exception(MaxReflectionAttempts(PyList(history))).obj)).obj
    @@ [code |-> PyNone]

\* step 1: attempt = 1, history empty
StartRequest ==
    /\ engine = Idle
    /\ \E N \in 1..MaxAttempts, sandbox \in [1..MaxAttempts -> AttemptOutcomes] :
         engine' = [state |-> "Generating", N |-> N, sandbox |-> sandbox, attempt |-> 1,
                    history |-> <<>>, generated |-> 0, result |-> PyNone]
    /\ UNCHANGED <<session_state, uploader, rendered, loads, last_load, call>>

\* steps 2 and 3: ask for code; a malformed response is a failed attempt
Generate ==
    /\ engine.state = "Generating"
    /\ engine' =
         IF engine.sandbox[engine.attempt] = "malformed"
         THEN [engine EXCEPT !.state = "Reflecting",
                             !.generated = @ + 1,
                             !.history = Append(@, FailureOf(engine.attempt, "malformed"))]
         ELSE [engine EXCEPT !.state = "Executing", !.generated = @ + 1]
    /\ UNCHANGED <<session_state, uploader, rendered, loads, last_load, call>>

\* step 4: run the code in the sandbox
Execute ==
    /\ engine.state = "Executing"
    /\ engine' =
         IF engine.sandbox[engine.attempt] = "ok"
         THEN [engine EXCEPT !.state = "Success", !.result = SuccessResult(engine.attempt)]
         ELSE [engine EXCEPT !.state = "Reflecting",
                             !.history = Append(@, FailureOf(engine.attempt, "raises"))]
    /\ UNCHANGED <<session_state, uploader, rendered, loads, last_load, call>>

\* step 4, on failure: stop at attempt N, otherwise the next attempt
Reflect ==
    /\ engine.state = "Reflecting"
    /\ engine' =
         IF engine.attempt = engine.N
         THEN [engine EXCEPT !.state = "Exhausted",
                             !.result = ExhaustedResult(engine.attempt, engine.history)]
         ELSE [engine EXCEPT !.state = "Generating", !.attempt = @ + 1]
    /\ UNCHANGED <<session_state, uploader, rendered, loads, last_load, call>>

ReflectionNext ==
    \/ StartRequest
    \/ Generate
    \/ Execute
    \/ Reflect

\* the request is one task whose attempts run one after the other: a step that
\* can be taken is taken
ReflectionSpec == Init /\ [][ReflectionNext]_vars /\ WF_vars(ReflectionNext)

(***************************************************************************)
(* Properties of the schema (checked under SchemaSpec).                    *)
(***************************************************************************)
\* the rules of DictionaryGeneration, as the specification lists them
ColumnsRule(columns) ==
    /\ columns # <<>>
    /\ \A i, j \in DOMAIN columns : i # j => columns[i] # columns[j]
    /\ \A i \in DOMAIN columns : IsStr(columns[i]) /\ Len(columns[i].s) > 0

LengthRule(columns, descriptions) == Len(descriptions) = Len(columns)

DescriptionsRule(descriptions) ==
    \A i \in DOMAIN descriptions :
        /\ IsStr(descriptions[i])
        /\ Len(descriptions[i].s) > 0
        /\ Len(strip(descriptions[i].s)) >= 10

\* C6: DictionaryGeneration is constructed if and only if the column list is
\* non-empty, free of duplicates and made of non-empty strings, the description
\* list is as long as the column list, and every description is a non-empty
\* string of at least 10 characters after trimming; anything else is rejected.
C6_DictionaryGenerationAccepts ==
    call.fn = "DictionaryGeneration" =>
        (call.out.raised = "none" <=>
            /\ ColumnsRule(call.columns)
            /\ LengthRule(call.columns, call.descriptions)
            /\ DescriptionsRule(call.descriptions))

\* a two-column response with padded descriptions was accepted
C6_Witness ==
    /\ call.fn = "DictionaryGeneration"
    /\ call.out.raised = "none"
    /\ Len(call.columns) = 2
    /\ \E i \in DOMAIN call.descriptions :
          Len(call.descriptions[i].s) > Len(strip(call.descriptions[i].s))

\* C7: every violation of a rule of DictionaryGeneration ends in the same kind
\* of failure, a validation error.
C7_ViolationsAreValidationErrors ==
    (/\ call.fn = "DictionaryGeneration"
     /\ ~(/\ ColumnsRule(call.columns)
          /\ LengthRule(call.columns, call.descriptions)
          /\ DescriptionsRule(call.descriptions)))
        => call.out.raised = "ValidationError"

\* C5: in every constructed result, status is "success" exactly when
\* metadata.exception is absent and "error" exactly when it is present.
C5_StatusFollowsException ==
    (call.fn \in ResultTypes /\ call.out.raised = "none") =>
        /\ call.out.obj.status = "success" <=> call.out.obj.metadata.exception = PyNone
        /\ call.out.obj.status = "error" <=> call.out.obj.metadata.exception # PyNone

\* the column names a DataDictionary lists
DictionaryColumns(d) == [i \in DOMAIN d.column_descriptions |-> d.column_descriptions[i].column]

\* the column names an input of a construction path holds
InputColumns ==
    CASE call.fn = "DataDictionary" -> [i \in DOMAIN call.input |-> call.input[i].column]
      [] call.fn = "from_analyst_df" -> call.input.labels
      [] call.fn = "from_application_df" ->
             IF "column" \in call.input.labels
             THEN [i \in DOMAIN call.input.rows |-> call.input.rows[i]["column"]]
             ELSE <<>>

HasDuplicates(s) == \E i, j \in DOMAIN s : i # j /\ s[i] = s[j]

\* C8: whatever the construction path, an input that names a column more than
\* once is rejected, and a constructed DataDictionary lists each column once.
C8_DuplicateColumnsRejected ==
    call.fn \in DataDictionaryPaths =>
        /\ HasDuplicates(InputColumns) => call.out.raised # "none"
        /\ call.out.raised = "none" => ~HasDuplicates(DictionaryColumns(call.out.obj))

\* C9: no request type is constructed with an empty question.
C9_EmptyQuestionRejected ==
    (call.fn \in RequestTypes /\ call.question = PyStr(<<>>)) => call.out.raised # "none"

\* Python's == on two values: int and float compare by number, NaN equals nothing
PyEq(a, b) ==
    IF a.t = "nan" \/ b.t = "nan" THEN FALSE
    ELSE IF a.t \in {"int", "float"} /\ b.t \in {"int", "float"} THEN a.n = b.n
    ELSE a = b

\* two record lists are the same: as many records, the same keys in the same
\* order, and equal values
RecordsEqual(r, s) ==
    /\ Len(r) = Len(s)
    /\ \A i \in DOMAIN r :
          /\ RecordKeys(r[i]) = RecordKeys(s[i])
          /\ \A k \in DOMAIN r[i] : PyEq(r[i][k][2], s[i][k][2])

\* every record has the keys of the first, in the same order
UniformColumns(r) == \A i \in DOMAIN r : RecordKeys(r[i]) = RecordKeys(r[1])

\* C10: an AnalystDataset built from a uniform-column record list gives the
\* list back as its data_records: order of records, order of columns, values.
C10_RecordsRoundTrip ==
    (/\ call.fn = "AnalystDataset"
     /\ call.out.raised = "none"
     /\ UniformColumns(call.input.items))
        => RecordsEqual(call.data_records, call.input.items)

(***************************************************************************)
(* Properties of the reflection loop (checked under ReflectionSpec).       *)
(***************************************************************************)
Started == engine.state # "Idle"

\* the sandbox fails on every attempt up to the bound
AlwaysFails == Started /\ \A i \in 1..engine.N : engine.sandbox[i] # "ok"

\* the sandbox fails on attempts 1..k-1 and succeeds on attempt k
FirstSuccessAt(k) ==
    /\ Started
    /\ k <= engine.N
    /\ engine.sandbox[k] = "ok"
    /\ \A i \in 1..(k - 1) : engine.sandbox[i] # "ok"

ExhaustedAfter(n) ==
    /\ engine.state = "Exhausted"
    /\ engine.generated = n
    /\ engine.result.status = "error"
    /\ engine.result.metadata.exception # PyNone
    /\ engine.result.metadata.exception.exception_history # PyNone
    /\ Len(engine.result.metadata.exception.exception_history.items) = n

\* C11: with a sandbox that fails on every attempt and bound N, the loop makes
\* exactly N attempts, never more, and then stops in Exhausted with an error
\* result whose exception history has N entries.
C11_ExhaustsAfterNAttempts ==
    /\ [](AlwaysFails => engine.generated <= engine.N)
    /\ [](AlwaysFails /\ engine.state = "Exhausted" => ExhaustedAfter(engine.N))
    /\ [](AlwaysFails => engine.state # "Success")
    /\ (AlwaysFails ~> (AlwaysFails /\ ExhaustedAfter(engine.N)))

\* a request with bound MaxAttempts ran out of attempts
C11_Witness ==
    /\ AlwaysFails
    /\ engine.N = MaxAttempts
    /\ ExhaustedAfter(MaxAttempts)

SucceededAt(k) ==
    /\ engine.state = "Success"
    /\ engine.generated = k
    /\ engine.result.status = "success"
    /\ engine.result.metadata.attempts = k
    /\ engine.result.metadata.exception = PyNone
    /\ "history" \notin DOMAIN engine.result

\* C12: with a sandbox that fails on attempts 1..k-1 and succeeds on attempt
\* k <= N, the loop stops at attempt k with a success result whose
\* metadata.attempts is k and which carries no failure history; no attempt
\* follows the first success.
C12_StopsAtFirstSuccess ==
    \A k \in 1..MaxAttempts :
        /\ [](FirstSuccessAt(k) => engine.generated <= k)
        /\ [](FirstSuccessAt(k) /\ engine.state = "Success" => SucceededAt(k))
        /\ [](FirstSuccessAt(k) => engine.state # "Exhausted")
        /\ (FirstSuccessAt(k) ~> (FirstSuccessAt(k) /\ SucceededAt(k)))

\* a request succeeded at its second attempt after one failure
C12_Witness ==
    /\ FirstSuccessAt(2)
    /\ SucceededAt(2)
    /\ Len(engine.history) = 1

(***************************************************************************)
(* Properties of AnalysisError.from_max_reflection_exception (SchemaSpec). *)
(***************************************************************************)
\* the positions of the entries of h that are not None
NonNil(h) == {i \in DOMAIN h : h[i] # PyNone}

\* the position in h of its j-th entry that is not None
NthNonNil(h, j) == CHOOSE i \in NonNil(h) : Cardinality({m \in NonNil(h) : m <= i}) = j

\* e is the CodeExecutionError of failure f: the five values copied, the
\* exception as its message
CopiedFrom(e, f) ==
    /\ e.code = f.code
    /\ e.stdout = f.stdout
    /\ e.stderr = f.stderr
    /\ e.traceback_str = f.traceback_str
    /\ f.exception # PyNone => e.exception_str = PyStr(f.exception.msg)

\* C13: from_max_reflection_exception maps the history of the exception to the
\* list of CodeExecutionError of its entries that are not None, in the order
\* of the history (oldest first), each with the entry's code, exception
\* message, stdout, stderr and traceback; the list is no longer than the
\* history, which holds at most one entry per attempt.
C13_HistoryMapped ==
    (call.fn = "from_max_reflection_exception" /\ call.history # PyNone) =>
        /\ call.out.raised = "none"
        /\ call.out.obj.exception_history # PyNone
        /\ Len(call.out.obj.exception_history.items) = Cardinality(NonNil(call.history.items))
        /\ Len(call.out.obj.exception_history.items) <= Len(call.history.items)
        /\ \A j \in DOMAIN call.out.obj.exception_history.items :
              CopiedFrom(call.out.obj.exception_history.items[j],
                         call.history.items[NthNonNil(call.history.items, j)])

\* a history holding a None entry next to failures was mapped, the None dropped
C13_Witness ==
    /\ call.fn = "from_max_reflection_exception"
    /\ call.history # PyNone
    /\ \E i \in DOMAIN call.history.items : call.history.items[i] = PyNone
    /\ call.out.raised = "none"
    /\ Len(call.out.obj.exception_history.items) = MaxList - 1
    /\ \E i \in DOMAIN call.history.items :
          /\ call.history.items[i] # PyNone
          /\ call.history.items[i].exception # PyNone

\* C14: for a history of AnalystChatMessage, each with a role among user,
\* assistant and system, the transport gets one message per chat message, in
\* the same order, each holding the role and the content of its message and
\* nothing else: the components are never part of it.
C14_MarshaledRoleAndContent ==
    (call.fn = "to_openai_message_param" /\ call.out.raised = "none") =>
        /\ Len(call.params) = Len(call.out.obj)
        /\ \A i \in DOMAIN call.params :
              /\ DOMAIN call.params[i] = {"role", "content"}
              /\ call.params[i].role = call.out.obj[i].role
              /\ call.params[i].content = call.out.obj[i].content

\* a history of messages of different roles, with a result attached, was marshaled
C14_Witness ==
    /\ call.fn = "to_openai_message_param"
    /\ call.out.raised = "none"
    /\ Len(call.params) = MaxList
    /\ call.out.obj[1].role # call.out.obj[2].role
    /\ \E i \in DOMAIN call.out.obj : call.out.obj[i].components # <<>>

(***************************************************************************)
(* Properties of the pages and the registries (checked under Spec).        *)
(***************************************************************************)
\* C15: when the session holds at least one dictionary, the Data Dictionary
\* page shows for every dictionary of the session its editable table and its
\* 'Download Data Dictionary' button, and the error branch for none.
C15_DictionaryPageShowsEditors ==
    (rendered.page = "dictionary" /\ Len(session_state.data_dictionaries) > 0) =>
        /\ Len(rendered.body) = Len(session_state.data_dictionaries)
        /\ \A i \in DOMAIN rendered.body :
              /\ rendered.body[i].block = "dictionary"
              /\ rendered.body[i].name = session_state.data_dictionaries[i].name
              /\ rendered.body[i].shown = {"data_editor", "download_data_dictionary"}

\* C16: the serialized form of an AnalystDataset holds its name and its
\* data_records and never the data field, and a dataset built from that form
\* has the same name, the same columns and the same records.
C16_DumpRoundTrip ==
    call.fn = "model_dump" =>
        /\ DOMAIN call.dump = {"name", "data_records"}
        /\ call.loaded.raised = "none"
        /\ call.loaded.obj.name = call.out.obj.name
        /\ call.loaded.obj.data.df.columns = call.out.obj.data.df.columns
        /\ data_records(call.loaded.obj) = data_records(call.out.obj)

\* C17: the dictionary from_analyst_df produces for a dataframe has one entry
\* per column of the dataframe, in the order of its columns, so that its
\* column set is the dataframe's.
C17_DictionaryColumnsAreFrameColumns ==
    (call.fn = "from_analyst_df" /\ call.out.raised = "none") =>
        /\ DictionaryColumns(call.out.obj) = call.input.labels
        /\ Range(DictionaryColumns(call.out.obj)) = Range(call.input.labels)
        /\ ~HasDuplicates(DictionaryColumns(call.out.obj))

\* a dictionary was produced for a dataframe of several columns
C17_Witness ==
    /\ call.fn = "from_analyst_df"
    /\ call.out.raised = "none"
    /\ Len(call.input.labels) = MaxList
    /\ Len(call.out.obj.column_descriptions) = MaxList

\* the session holds a cleaning report under this name
HasReport(ss, name) == \E j \in DOMAIN ss.cleansed_data : ss.cleansed_data[j].name = name

\* C18: after a load from a file or the catalog whose cleansing returned,
\* every dataset the load added has a cleaning report and the Explore page
\* shows the report view for it; a dataset of the session has no report only
\* if it is an uncleansed one, which a load adds only from the database or
\* when its cleansing failed.
C18_LoadedDatasetsHaveReports ==
    /\ (last_load.load > 0 /\ last_load.source \in {FILE, CATALOG}
            /\ last_load.cleanse = "returned") =>
          \A i \in DOMAIN session_state.datasets :
              session_state.datasets[i].load = last_load.load =>
                 /\ HasReport(session_state, session_state.datasets[i].name)
                 /\ rendered.page = "explore" =>
                       /\ rendered.body[i].name = session_state.datasets[i].name
                       /\ rendered.body[i].report = "cleaning_report"
    /\ \A i \in DOMAIN session_state.datasets :
          ~HasReport(session_state, session_state.datasets[i].name) =>
              /\ session_state.datasets[i].raw
              /\ session_state.datasets[i].load = last_load.load =>
                    last_load.source = DATABASE \/ last_load.cleanse = "raised"

\* a catalog load of two datasets was cleansed and both are shown with their report
C18_Witness ==
    /\ last_load.load > 0
    /\ last_load.source = CATALOG
    /\ last_load.cleanse = "returned"
    /\ rendered.page = "explore"
    /\ Cardinality({i \in DOMAIN session_state.datasets :
                       /\ session_state.datasets[i].load = last_load.load
                       /\ rendered.body[i].report = "cleaning_report"}) = 2

\* C19: every dictionary of the session is named after a dataset that is in
\* the session's dataset list, whatever loads and clears came before.
C19_NoDanglingDictionary ==
    \A j \in DOMAIN session_state.data_dictionaries :
        session_state.data_dictionaries[j].name \in Names(session_state.datasets)

\* C20: every entry of cleansed_data is named after a dataset that is in the
\* session's dataset list, and no two entries of cleansed_data share a name.
C20_CleansedDataMatchesDatasets ==
    /\ \A j \in DOMAIN session_state.cleansed_data :
          session_state.cleansed_data[j].name \in Names(session_state.datasets)
    /\ \A j, k \in DOMAIN session_state.cleansed_data :
          j # k => session_state.cleansed_data[j].name # session_state.cleansed_data[k].name

(***************************************************************************)
(* Uploaded files across the reruns of the page (Spec).                    *)
(***************************************************************************)
\* the step is not a clear: the uploader keeps its key
NoClear == session_state'.file_uploader_key = session_state.file_uploader_key

\* the file ids the step recorded
RecordedByStep ==
    SubSeq(session_state'.processed_file_ids,
           Len(session_state.processed_file_ids) + 1,
           Len(session_state'.processed_file_ids))

\* the files the step parsed and loaded: its loads, less the catalog or table
\* load that ends the run
FileLoadsOfStep ==
    (loads' - loads) - (IF loads' > loads /\ last_load'.source # FILE THEN 1 ELSE 0)

\* C21: over steps without a clear, processed_file_ids only grows; the step
\* parses and loads exactly the files it records, these are the files of the
\* uploader whose file_id was not recorded before, readable or not, and so no
\* file_id is recorded (parsed, loaded) twice
C21_FilesProcessedOnce ==
    [][NoClear =>
        /\ Len(session_state'.processed_file_ids) >= Len(session_state.processed_file_ids)
        /\ SubSeq(session_state'.processed_file_ids, 1,
                  Len(session_state.processed_file_ids)) = session_state.processed_file_ids
        /\ Range(RecordedByStep) =
              {f.file_id : f \in Range(uploader')} \ Range(session_state.processed_file_ids)
        /\ FileLoadsOfStep = Len(RecordedByStep)
        /\ Cardinality(Range(session_state'.processed_file_ids))
              = Len(session_state'.processed_file_ids)]_vars

\* the unreadable file was recorded by the run that failed to parse it, and the
\* run of a later catalog load skipped it: two loads, one per run
C21_Witness ==
    /\ \E f \in Range(uploader) : ~f.readable /\ f.file_id \in Range(session_state.processed_file_ids)
    /\ Len(session_state.processed_file_ids) = 1
    /\ loads = 2
    /\ last_load.source = CATALOG

(***************************************************************************)
(* The sources of a session's datasets (Spec).                             *)
(***************************************************************************)
\* the datasets of registry that load entry made
DatasetsOfLoad(registry, entry) ==
    {i \in DOMAIN registry : entry.load > 0 /\ registry[i].load = entry.load}

\* the step's last load came from a file or the catalog and left its datasets
\* next to datasets of the database load before it
MixedByStep ==
    /\ last_load.load > 0 /\ last_load.source = DATABASE
    /\ DatasetsOfLoad(session_state'.datasets, last_load) # {}
    /\ last_load'.load > last_load.load /\ last_load'.source \in {FILE, CATALOG}
    /\ DatasetsOfLoad(session_state'.datasets, last_load') # {}

\* C22: between two clears a session never mixes sources: no step leaves
\* datasets loaded from a file or the catalog in a session that holds datasets
\* loaded from the database
C22_NeverMixesSources ==
    [][~MixedByStep]_vars

====
